---------------------------- MODULE Spec2Model ----------------------------
(***************************************************************************)
(* Model of the PowerManagement battery plugin                             *)
(* (pmconfigd/BatteryTimeRemaining.c): the discontinuity tracker, the      *)
(* time-remaining estimator, the health classifier and the diffing         *)
(* publisher; and of the battery manager's user client                     *)
(* (AppleSmartBatteryManager/AppleSmartBatteryManagerUserClient.cpp).      *)
(*                                                                         *)
(* Time is counted in whole seconds (CFAbsoluteTime restricted to the      *)
(* integers), currents in mA, capacities in mAh, estimates in minutes.     *)
(***************************************************************************)
EXTENDS Integers, FiniteSets, Sequences, TLC

(***************************************************************************)
(* Program constants                                                       *)
(***************************************************************************)
kSmartBattReserve_mAh == 200
kMaxBattMinutes == 600
kBatteryPermFailureString == "Permanent Battery Failure"
kIOMessageSystemWillPowerOn == "kIOMessageSystemWillPowerOn"
kIOMessageSystemWillSleep == "kIOMessageSystemWillSleep"
kIOReturnSuccess == "kIOReturnSuccess"
kIOReturnError == "kIOReturnError"
kIOReturnBadArgument == "kIOReturnBadArgument"
kIOReturnNotPrivileged == "kIOReturnNotPrivileged"

\* the null timer reference, task and service; timer objects, tasks and
\* services are numbered from 1
NULL == 0
\* a null CFStringRef, and the value of a dictionary key that is not set
NoValue == "(null)"

(***************************************************************************)
(* Bounds of the model                                                     *)
(***************************************************************************)
\* the clock runs over 0..MaxTime
MaxTime == 3
\* _batteryCount(): the batteries are indexed 0..batCount-1, 0 is primary
batCount == 2
Batteries == 0 .. (batCount - 1)

VARIABLES
    now,                            \* CFAbsoluteTimeGetCurrent()
    batts,                          \* _batteries(): the IOPMBattery structs
    estimatesInvalidUntil,          \* _estimatesInvalidUntil
    useBatteryTimeEstimate,         \* _useBatteryTimeEstimate
    ignoringTimeRemainingEstimates, \* _ignoringTimeRemainingEstimates
    timeSettledTimer,               \* _timeSettledTimer: NULL or a timer id
    runLoopTimers,                  \* valid timers of the run loop: [id, fireDate]
    lastExternal,                   \* static _lastExternal
    lastIsPresent,                  \* static _lastIsPresent
    old_battery,                    \* static old_battery[]: retained records
    store,                          \* SCDynamicStore: value under each battery's key
    published,                      \* indices SCDynamicStoreSetValue was called for
                                    \* by the latest pipeline run
    balgReads,                      \* what the reads of the 'BALG' SMC key made by
                                    \* the latest pipeline run have found
    lastEvent,                      \* the handler that ran last
    fOwningTask,                    \* user client: the task that opened it
    fOwner,                         \* user client: the battery manager
    return_code,                    \* *return_code of the latest method call
    inflowDisabled,                 \* battery manager: the inflow-disable level
    chargeInhibited,                \* battery manager: the charge-inhibit level
    lastCall                        \* the latest method call of the user client

trackerVars == <<estimatesInvalidUntil, ignoringTimeRemainingEstimates,
                 timeSettledTimer, runLoopTimers>>
runVars == <<useBatteryTimeEstimate, lastExternal, lastIsPresent,
             old_battery, store, published, balgReads>>
pluginVars == <<now, batts, trackerVars, runVars, lastEvent>>
userClientVars == <<fOwningTask, fOwner, return_code, inflowDisabled,
                    chargeInhibited, lastCall>>
vars == <<pluginVars, userClientVars>>

(***************************************************************************)
(* Arithmetic of the C code                                                *)
(***************************************************************************)
\* abs() of <stdlib.h>
abs(x) == IF x < 0 THEN -x ELSE x

\* conversion of the real n/d (d # 0) to int: truncation toward zero
TruncDiv(n, d) ==
    LET q == abs(n) \div abs(d)
    IN  IF (n < 0) = (d < 0) THEN q ELSE -q

\* lround() of the real n/d (d # 0): nearest integer, halves away from zero
lround(n, d) ==
    LET q == (2 * abs(n) + abs(d)) \div (2 * abs(d))
    IN  IF (n < 0) = (d < 0) THEN q ELSE -q

\* _batteryHas(b, key): the battery's property dictionary holds the key
batteryHas(b, key) == key \in b.properties

(***************************************************************************)
(* _shouldTrustBatteryTimeEstimate                                         *)
(***************************************************************************)
_shouldTrustBatteryTimeEstimate(b, keyFound) ==
    keyFound /\ batteryHas(b, "TimeRemaining")

(***************************************************************************)
(* _populateTimeRemaining, the body of its loop for one battery            *)
(***************************************************************************)
\* Stands for the result of converting an infinite or NaN double to int, which
\* C leaves undefined: a value that no reading of the model yields and that
\* the post-conditions pass on, so that no statement about an estimate holds
\* of it.
Undefined == -(2 ^ 30)

\* lines 323-339: the bounds on |avgAmperage|, as <<2 * lower, 2 * upper>>
\* (doubled, so that 0.5 * |instantAmperage| stays an integer)
amperageBounds2(b) ==
    IF batteryHas(b, "InstantAmperage")
    THEN <<abs(b.instantAmperage), 4 * abs(b.instantAmperage)>>
    ELSE <<2 * 5, 2 * 15000>>

\* (mutant) the blackout does not invalidate the estimate
noTimeEstimate_withoutBlackout(b, ignoring) ==
    \/ 0 = b.avgAmperage
    \/ 2 * abs(b.avgAmperage) < amperageBounds2(b)[1]
    \/ 2 * abs(b.avgAmperage) > amperageBounds2(b)[2]

\* (mutant) a zero average current is left to the bounds
noTimeEstimate_withoutZeroTest(b, ignoring) ==
    \/ 2 * abs(b.avgAmperage) < amperageBounds2(b)[1]
    \/ 2 * abs(b.avgAmperage) > amperageBounds2(b)[2]
    \/ ignoring

\* (mutant) an average current on a bound is rejected
noTimeEstimate_strictBounds(b, ignoring) ==
    \/ 0 = b.avgAmperage
    \/ 2 * abs(b.avgAmperage) <= amperageBounds2(b)[1]
    \/ 2 * abs(b.avgAmperage) >= amperageBounds2(b)[2]
    \/ ignoring

\* lines 355-358: the conditions that invalidate a time remaining estimate
noTimeEstimate(b, ignoring) ==
    \/ 0 = b.avgAmperage
    \/ 2 * abs(b.avgAmperage) < amperageBounds2(b)[1]
    \/ 2 * abs(b.avgAmperage) > amperageBounds2(b)[2]
    \/ ignoring

\* The quotient (double) n / (double) d is rounded to the nearest double
\* before it is multiplied by 60. Of the capacities and currents the readings
\* of this model hold, 2050 / 1000 and 4100 / 1000 are rounded to a double
\* whose product with 60 is itself rounded to the double just below the whole
\* number 60 * n / d (122.99999999999999 for 123, 245.99999999999997 for 246),
\* whatever the signs; for all the others the product is on the same side of
\* every whole number as the exact 60 * n / d.
productFallsShort(n, d) == <<abs(n), abs(d)>> \in {<<2050, 1000>>, <<4100, 1000>>}

\* 60 * ((double) n / (double) d) stored into an int: the conversion drops the
\* fraction
minutes60(n, d) ==
    IF d = 0 THEN Undefined
    ELSE LET exact == TruncDiv(60 * n, d)
         IN  IF productFallsShort(n, d)
             THEN IF exact > 0 THEN exact - 1 ELSE exact + 1
             ELSE exact

\* lines 365-388: the estimate before the post-conditions
calculatedTR(b, useBattery) ==
    IF useBattery
    THEN b.hwAverageTR
    ELSE IF b.isCharging
         THEN minutes60(b.maxCap - b.currentCap, b.avgAmperage)
         ELSE minutes60(-b.currentCap, b.avgAmperage)

\* lines 392-400: negative estimates become -1, estimates above the cap the cap
clampTR(tr) ==
    IF tr = Undefined THEN Undefined
    ELSE IF tr < 0 THEN -1
    ELSE IF kMaxBattMinutes < tr THEN kMaxBattMinutes
    ELSE tr

\* b->swCalculatedTR after the loop body
swCalculatedTR(b, ignoring, useBattery) ==
    IF noTimeEstimate(b, ignoring)
    THEN -1
    ELSE clampTR(calculatedTR(b, useBattery))

_populateTimeRemaining(bs, ignoring, useBattery) ==
    [i \in DOMAIN bs |->
        [bs[i] EXCEPT !.swCalculatedTR = swCalculatedTR(bs[i], ignoring, useBattery)]]

(***************************************************************************)
(* _setBatteryHealthConfidence                                             *)
(***************************************************************************)
\* line 451 and the comparisons of lines 458 and 470:
\* ((double) maxCap + kSmartBattReserve_mAh) / (double) designCap <= pct / 100.
\* A zero design capacity makes the ratio infinite (or NaN when the numerator
\* is zero too), a negative one reverses the comparison.
ratioAtMost(b, pct) ==
    LET n == b.maxCap + kSmartBattReserve_mAh
        d == b.designCap
    IN  IF d > 0 THEN 100 * n <= pct * d
        ELSE IF d < 0 THEN 100 * n >= pct * d
        ELSE n < 0

\* (mutant) a marked battery is released at the marking threshold
staysMarked_noHysteresis(b) == ratioAtMost(b, 80) /\ b.cycleCount < 300

\* line 458: the condition that keeps a marked battery marked
staysMarked(b) == ratioAtMost(b, 83) /\ b.cycleCount < 300

\* (mutant) a marking threshold above the release threshold
becomesMarked_above(b) == ratioAtMost(b, 85) /\ b.cycleCount < 300

\* line 470: the condition that marks an unmarked battery
becomesMarked(b) == ratioAtMost(b, 80) /\ b.cycleCount < 300

\* (mutant) the ratio is computed without testing for the design capacity
_setBatteryHealthConfidence_designUntested(b) ==
    LET unset == [health |-> NoValue, confidence |-> NoValue,
                  marked |-> b.markedNeedsReplacement]
    IN  IF ~b.isPresent THEN unset
        ELSE IF /\ batteryHas(b, "ErrorCondition")
                /\ b.failureDetected = kBatteryPermFailureString
        THEN [unset EXCEPT !.health = "Poor", !.confidence = "Good"]
        ELSE IF batteryHas(b, "MaxCapacity")
        THEN IF b.markedNeedsReplacement
             THEN IF staysMarked(b)
                  THEN [health |-> "Fair", confidence |-> "Good", marked |-> TRUE]
                  ELSE [health |-> "Good", confidence |-> "Good", marked |-> FALSE]
             ELSE IF becomesMarked(b)
                  THEN [health |-> "Fair", confidence |-> "Good", marked |-> TRUE]
                  ELSE [health |-> "Good", confidence |-> "Good", marked |-> FALSE]
        ELSE unset

\* (mutant) a permanent failure clears the mark
_setBatteryHealthConfidence_failureClearsMark(b) ==
    LET unset == [health |-> NoValue, confidence |-> NoValue,
                  marked |-> b.markedNeedsReplacement]
    IN  IF ~b.isPresent THEN unset
        ELSE IF /\ batteryHas(b, "ErrorCondition")
                /\ b.failureDetected = kBatteryPermFailureString
        THEN [health |-> "Poor", confidence |-> "Good", marked |-> FALSE]
        ELSE IF batteryHas(b, "MaxCapacity") /\ batteryHas(b, "DesignCapacity")
        THEN IF b.markedNeedsReplacement
             THEN IF staysMarked(b)
                  THEN [health |-> "Fair", confidence |-> "Good", marked |-> TRUE]
                  ELSE [health |-> "Good", confidence |-> "Good", marked |-> FALSE]
             ELSE IF becomesMarked(b)
                  THEN [health |-> "Fair", confidence |-> "Good", marked |-> TRUE]
                  ELSE [health |-> "Good", confidence |-> "Good", marked |-> FALSE]
        ELSE unset

\* The health and confidence values put into the dictionary (NoValue: not set)
\* and b->markedNeedsReplacement after the call.
_setBatteryHealthConfidence(b) ==
    LET unset == [health |-> NoValue, confidence |-> NoValue,
                  marked |-> b.markedNeedsReplacement]
    IN  IF ~b.isPresent THEN unset
        ELSE IF /\ batteryHas(b, "ErrorCondition")
                /\ b.failureDetected = kBatteryPermFailureString
        THEN [unset EXCEPT !.health = "Poor", !.confidence = "Good"]
        ELSE IF batteryHas(b, "MaxCapacity") /\ batteryHas(b, "DesignCapacity")
        THEN IF b.markedNeedsReplacement
             THEN IF staysMarked(b)
                  THEN [health |-> "Fair", confidence |-> "Good", marked |-> TRUE]
                  ELSE [health |-> "Good", confidence |-> "Good", marked |-> FALSE]
             ELSE IF becomesMarked(b)
                  THEN [health |-> "Fair", confidence |-> "Good", marked |-> TRUE]
                  ELSE [health |-> "Good", confidence |-> "Good", marked |-> FALSE]
        ELSE unset

(***************************************************************************)
(* _packageBatteryInfo, the body of its loop for one battery               *)
(***************************************************************************)
\* (mutant) the percentage is truncated, not rounded
capacityPercentages_truncated(b) ==
    IF 0 # b.maxCap
    THEN LET set_charge == TruncDiv(b.currentCap * 100, b.maxCap)
         IN  <<100, IF 100 = set_charge /\ b.isCharging THEN 99 ELSE set_charge>>
    ELSE <<0, 0>>

\* lines 563-580: <<set_capacity, set_charge>>
capacityPercentages(b) ==
    IF 0 # b.maxCap
    THEN LET set_charge == lround(b.currentCap * 100, b.maxCap)
         IN  <<100, IF 100 = set_charge /\ b.isCharging THEN 99 ELSE set_charge>>
    ELSE <<0, 0>>

\* (mutant) the times of a battery that is not present are not zeroed
chargingAndTimes_ignoresPresence(b) ==
    LET minutes == b.swCalculatedTR
    IN  IF -1 = minutes THEN <<b.isCharging, -1, -1>>
        ELSE IF b.isCharging THEN <<TRUE, minutes, 0>>
        ELSE IF b.externalConnected THEN <<FALSE, 0, 0>>
        ELSE <<FALSE, 0, minutes>>

\* (mutant) a battery on AC that is not charging is taken to be discharging
chargingAndTimes_dischargingOnAC(b) ==
    LET minutes == b.swCalculatedTR
    IN  IF ~b.isPresent THEN <<FALSE, 0, 0>>
        ELSE IF -1 = minutes THEN <<b.isCharging, -1, -1>>
        ELSE IF b.isCharging THEN <<TRUE, minutes, 0>>
        ELSE <<FALSE, 0, minutes>>

\* lines 600-655: <<Is Charging, Time to Full Charge, Time to Empty>>
chargingAndTimes(b) ==
    LET minutes == b.swCalculatedTR
    IN  IF ~b.isPresent THEN <<FALSE, 0, 0>>
        ELSE IF -1 = minutes THEN <<b.isCharging, -1, -1>>
        ELSE IF b.isCharging THEN <<TRUE, minutes, 0>>
        ELSE IF b.externalConnected THEN <<FALSE, 0, 0>>
        ELSE <<FALSE, 0, minutes>>

\* The dictionary built for battery b. A key the code does not set has the
\* value NULL (FALSE for the two flags that are only ever set to true).
batteryInfo(b, ignoring, useBattery) ==
    LET hc == _setBatteryHealthConfidence(b)
    IN  [ providesTimeRemaining |-> useBattery,
          waitingForEstimates   |-> ignoring,
          failure               |-> b.failureDetected,
          chargeStatus          |-> b.chargeStatus,
          transportType         |-> "Internal",
          powerSourceState      |-> IF b.externalConnected THEN "AC Power"
                                                           ELSE "Battery Power",
          maxCapacity           |-> capacityPercentages(b)[1],
          currentCapacity       |-> capacityPercentages(b)[2],
          isPresent             |-> b.isPresent,
          isCharging            |-> chargingAndTimes(b)[1],
          timeToFullCharge      |-> chargingAndTimes(b)[2],
          timeToEmpty           |-> chargingAndTimes(b)[3],
          health                |-> hc.health,
          confidence            |-> hc.confidence,
          name                  |-> IF b.name # NoValue THEN b.name ELSE "Unnamed" ]

\* ret[]: one dictionary per battery
_packageBatteryInfo(bs, ignoring, useBattery) ==
    [i \in DOMAIN bs |-> batteryInfo(bs[i], ignoring, useBattery)]

\* the batteries after _packageBatteryInfo: _setBatteryHealthConfidence has
\* updated markedNeedsReplacement
batteriesAfterPackage(bs) ==
    [i \in DOMAIN bs |->
        [bs[i] EXCEPT !.markedNeedsReplacement =
                            _setBatteryHealthConfidence(bs[i]).marked]]

(***************************************************************************)
(* The discontinuity tracker                                               *)
(***************************************************************************)
\* the tracker's variables as one record
tracker ==
    [ estimatesInvalidUntil          |-> estimatesInvalidUntil,
      ignoringTimeRemainingEstimates |-> ignoringTimeRemainingEstimates,
      timeSettledTimer               |-> timeSettledTimer,
      runLoopTimers                  |-> runLoopTimers ]

\* CFRunLoopTimerInvalidate: the timer leaves the run loop and never fires
CFRunLoopTimerInvalidate(timers, id) == {tm \in timers : tm.id # id}

\* CFRunLoopTimerCreate: a timer object distinct from the valid ones
CFRunLoopTimerCreate(timers) ==
    CHOOSE n \in 1 .. Cardinality(timers) + 1 :
        /\ \A tm \in timers : tm.id # n
        /\ \A m \in 1 .. Cardinality(timers) + 1 :
              (\A tm \in timers : tm.id # m) => n <= m

\* (mutant) the handle is cleared but the pending timer is left valid
invalidateTimeSettledTimer_leak(trk) == [trk EXCEPT !.timeSettledTimer = NULL]

\* lines 153-158: the pending timer is invalidated and the handle cleared
invalidateTimeSettledTimer(trk) ==
    IF trk.timeSettledTimer # NULL
    THEN [trk EXCEPT
            !.runLoopTimers = CFRunLoopTimerInvalidate(@, trk.timeSettledTimer),
            !.timeSettledTimer = NULL]
    ELSE trk

\* (mutant) the flag is set and no timer is created
_discontinuityOccurred_noTimer(trk, bs, t) ==
    IF DOMAIN bs = {} THEN trk
    ELSE LET inv == invalidateTimeSettledTimer(trk)
         IN  [ estimatesInvalidUntil          |-> t + bs[0].invalidWakeSecs,
               ignoringTimeRemainingEstimates |-> TRUE,
               timeSettledTimer               |-> NULL,
               runLoopTimers                  |-> inv.runLoopTimers ]

\* (mutant) the timer is set for the time of the discontinuity, not for the
\* end of the blackout
_discontinuityOccurred_firesAtOnce(trk, bs, t) ==
    IF DOMAIN bs = {} THEN trk
    ELSE LET inv == invalidateTimeSettledTimer(trk)
             id  == CFRunLoopTimerCreate(inv.runLoopTimers)
         IN  [ estimatesInvalidUntil          |-> t + bs[0].invalidWakeSecs,
               ignoringTimeRemainingEstimates |-> TRUE,
               timeSettledTimer               |-> id,
               runLoopTimers                  |-> inv.runLoopTimers \cup
                                                  {[id |-> id, fireDate |-> t]} ]

\* (mutant) a discontinuity inside an open window leaves the window as it is
_discontinuityOccurred_keepsWindow(trk, bs, t) ==
    IF DOMAIN bs = {} \/ trk.ignoringTimeRemainingEstimates THEN trk
    ELSE LET until == t + bs[0].invalidWakeSecs
             inv   == invalidateTimeSettledTimer(trk)
             id    == CFRunLoopTimerCreate(inv.runLoopTimers)
         IN  [ estimatesInvalidUntil          |-> until,
               ignoringTimeRemainingEstimates |-> TRUE,
               timeSettledTimer               |-> id,
               runLoopTimers                  |-> inv.runLoopTimers \cup
                                                  {[id |-> id, fireDate |-> until]} ]

\* _discontinuityOccurred called at time t with the batteries bs, from the
\* tracker state trk
_discontinuityOccurred(trk, bs, t) ==
    IF DOMAIN bs = {} THEN trk
    ELSE LET until == t + bs[0].invalidWakeSecs
             inv   == invalidateTimeSettledTimer(trk)
             id    == CFRunLoopTimerCreate(inv.runLoopTimers)
         IN  [ estimatesInvalidUntil          |-> until,
               ignoringTimeRemainingEstimates |-> TRUE,
               timeSettledTimer               |-> id,
               runLoopTimers                  |-> inv.runLoopTimers \cup
                                                  {[id |-> id, fireDate |-> until]} ]

\* (mutant) the callback leaves the handle set
timerHasFired_keepsHandle(trk) ==
    [trk EXCEPT !.ignoringTimeRemainingEstimates = FALSE]

\* (mutant) the callback leaves the flag set
timerHasFired_keepsFlag(trk) == [trk EXCEPT !.timeSettledTimer = NULL]

\* lines 170-171: what _timeRemainingMaybeValid assigns before it runs the
\* pipeline
timerHasFired(trk) ==
    [trk EXCEPT !.timeSettledTimer = NULL,
                !.ignoringTimeRemainingEstimates = FALSE]

(***************************************************************************)
(* BatteryTimeRemainingBatteriesHaveChanged                                *)
(***************************************************************************)
\* an empty slot of old_battery[] or of the store
NoRecord == [null |-> TRUE]

\* (mutant) a change of AC goes unnoticed
acChanged_unnoticed(bs) == FALSE

\* line 227: AC has changed since the last reading
acChanged(bs) == lastExternal # bs[0].externalConnected

\* (mutant) the decision is taken again in every run on a present battery
batteryInserted_everyRun(bs) == bs[0].isPresent

\* line 239: the primary battery has been inserted
batteryInserted(bs) == bs[0].isPresent /\ ~lastIsPresent

\* (mutant) the dictionary is published whether or not it has changed
mustPublish_always(old, new) == TRUE

\* (mutant) only a battery without a retained dictionary is published
mustPublish_onlyNew(old, new) == old = NoRecord

\* lines 268-273: the dictionary is new or has changed
mustPublish(old, new) == old = NoRecord \/ old # new

\* The pipeline run on the batteries bs from the tracker state trk, keyFound
\* telling whether the 'BALG' SMC key can be read: every value the run leaves
\* behind.
pipeline(trk, bs, keyFound) ==
    LET trk1   == IF acChanged(bs) THEN _discontinuityOccurred(trk, bs, now)
                                   ELSE trk
        use    == IF batteryInserted(bs)
                  THEN _shouldTrustBatteryTimeEstimate(bs[0], keyFound)
                  ELSE useBatteryTimeEstimate
        ign    == trk1.ignoringTimeRemainingEstimates
        bs1    == _populateTimeRemaining(bs, ign, use)
        result == _packageBatteryInfo(bs1, ign, use)
        pubs   == {i \in DOMAIN bs : mustPublish(old_battery[i], result[i])}
    IN  [ tracker       |-> trk1,
          useBattery    |-> use,
          lastExternal  |-> bs[0].externalConnected,
          lastIsPresent |-> bs[0].isPresent,
          batts         |-> batteriesAfterPackage(bs1),
          old_battery   |-> result,
          store         |-> [i \in DOMAIN bs |->
                                IF i \in pubs THEN result[i] ELSE store[i]],
          published     |-> pubs,
          balgReads     |-> IF batteryInserted(bs) THEN {keyFound} ELSE {} ]

\* the variables after a pipeline run with outcome p
runPipeline(p) ==
    /\ estimatesInvalidUntil' = p.tracker.estimatesInvalidUntil
    /\ ignoringTimeRemainingEstimates' = p.tracker.ignoringTimeRemainingEstimates
    /\ timeSettledTimer' = p.tracker.timeSettledTimer
    /\ runLoopTimers' = p.tracker.runLoopTimers
    /\ useBatteryTimeEstimate' = p.useBattery
    /\ lastExternal' = p.lastExternal
    /\ lastIsPresent' = p.lastIsPresent
    /\ batts' = p.batts
    /\ old_battery' = p.old_battery
    /\ store' = p.store
    /\ published' = p.published
    /\ balgReads' = p.balgReads

\* the battery struct b after the kernel's new reading r has been copied in:
\* the estimate and the needs-replacement mark are not part of a reading
batteryChanged(b, r) ==
    [r EXCEPT !.swCalculatedTR = b.swCalculatedTR,
              !.markedNeedsReplacement = b.markedNeedsReplacement]

(***************************************************************************)
(* Battery readings                                                        *)
(***************************************************************************)
\* the kernel's reading held in the battery struct b: b without the two
\* fields the plugin itself computes
readingOf(b) == [b EXCEPT !.swCalculatedTR = 0, !.markedNeedsReplacement = FALSE]

\* A primary battery discharging at 1000 mA, half full, in good health. The
\* estimate and the mark are as in a freshly allocated IOPMBattery.
BaseReading ==
    [ isPresent              |-> TRUE,
      externalConnected      |-> FALSE,
      isCharging             |-> FALSE,
      currentCap             |-> 500,
      maxCap                 |-> 1000,
      designCap              |-> 1000,
      cycleCount             |-> 100,
      avgAmperage            |-> -1000,
      instantAmperage        |-> -1000,
      hwAverageTR            |-> 45,
      invalidWakeSecs        |-> 2,
      failureDetected        |-> NoValue,
      chargeStatus           |-> NoValue,
      name                   |-> "InternalBattery",
      properties             |-> {"InstantAmperage", "MaxCapacity", "DesignCapacity"},
      swCalculatedTR         |-> 0,
      markedNeedsReplacement |-> FALSE ]

\* on AC and charging at 1000 mA
ChargingReading ==
    [BaseReading EXCEPT !.externalConnected = TRUE, !.isCharging = TRUE,
                        !.avgAmperage = 1000, !.instantAmperage = 1000]

\* The readings of the system specification: power source, charging, sign of
\* the current, blackout length, presence and firmware estimate vary.
SysReadings ==
    {   BaseReading,
        [BaseReading EXCEPT !.invalidWakeSecs = 0,
                            !.properties = @ \cup {"TimeRemaining"}],
        [BaseReading EXCEPT !.avgAmperage = 1000],
        [ChargingReading EXCEPT !.invalidWakeSecs = 1],
        [ChargingReading EXCEPT !.isPresent = FALSE, !.isCharging = FALSE,
                                !.avgAmperage = 0, !.instantAmperage = 0]
    }

\* The readings of the publishing specification: the capacity ratio is good
\* (1.2), at the marking threshold (0.80) or just above the release threshold
\* (0.84), and one reading is on AC.
PublishReadings ==
    {   BaseReading,
        [BaseReading EXCEPT !.maxCap = 600],
        [BaseReading EXCEPT !.maxCap = 640],
        [ChargingReading EXCEPT !.invalidWakeSecs = 1]
    }

\* The readings of the health specification: with a design capacity of 1000
\* the ratio is 0.80, 0.81, 0.83 or 0.84, the cycle count is below or at 300,
\* and one reading is on AC with no blackout.
HealthReadings ==
    { [BaseReading EXCEPT !.maxCap = m, !.cycleCount = c] :
          m \in {600, 610, 630, 640}, c \in {299, 300} }
    \cup { [ChargingReading EXCEPT !.invalidWakeSecs = 0] }

\* The readings of the estimator: average currents at zero and on, inside and
\* outside the bounds [10, 40] (instant current 20), [10.5, 42] (instant
\* current -21), [0, 0] (instant current 0) and [5, 15000] (no instant
\* current); charging or not; with or without a firmware estimate.
EstimatorReadings ==
    { [BaseReading EXCEPT !.avgAmperage = a, !.instantAmperage = ia[1],
                          !.isCharging = c,
                          !.properties = {"MaxCapacity", "DesignCapacity"}
                                            \cup ia[2] \cup tr] :
          a \in {0, 4, -4, 5, -5, 10, -10, 11, -11, 40, -40, 41, -41,
                 15000, -15000, 15001, -15001},
          ia \in {<<0, {}>>, <<0, {"InstantAmperage"}>>,
                  <<20, {"InstantAmperage"}>>, <<-21, {"InstantAmperage"}>>},
          c \in BOOLEAN,
          tr \in {{}, {"TimeRemaining"}} }

\* The readings of the firmware estimate: negative, zero, at the cap and
\* above it.
FirmwareReadings ==
    { [BaseReading EXCEPT !.hwAverageTR = tr,
                          !.properties = @ \cup {"TimeRemaining"}] :
          tr \in {-5, 0, 600, 601} }

\* The readings of the rounding of the estimate: 2050 mAh to go at 1000 mA,
\* which is 123 minutes
RoundingReadings ==
    { [BaseReading EXCEPT !.currentCap = 2050, !.maxCap = 4100,
                          !.designCap = 4100, !.isCharging = c,
                          !.avgAmperage = a, !.instantAmperage = a] :
          c \in BOOLEAN, a \in {-1000, 1000} }

\* The readings of the capacity percentages: a maximum capacity of 0, 3, 100
\* or 200 with current capacities around none, a half and all of it.
CapacityReadings ==
    { [BaseReading EXCEPT !.currentCap = cur, !.maxCap = max, !.isCharging = c] :
          cur \in {0, 1, 2, 3, 99, 100, 101, 198, 199, 200, 201},
          max \in {0, 3, 100, 200},
          c \in BOOLEAN }

\* The readings of the snapshot specification, all with no blackout after a
\* discontinuity: a battery that is present or not, on AC or not, charging or
\* not, with a current of zero or not, with a capacity ratio of 0.80 or 1.2,
\* with or without a permanent failure.
\* readings of batteries in every condition the health classifier tells apart;
\* none of them asks for estimates to be withheld after a discontinuity
ConditionReadings ==
    LET settled == [BaseReading EXCEPT !.invalidWakeSecs = 0]
        worn    == [settled EXCEPT !.maxCap = 600]
    IN  {   settled,
            worn,
            [settled EXCEPT !.maxCap = 620],
            [worn EXCEPT !.failureDetected = kBatteryPermFailureString,
                         !.properties = @ \cup {"ErrorCondition"}],
            [settled EXCEPT !.failureDetected = kBatteryPermFailureString,
                            !.properties = @ \cup {"ErrorCondition"}],
            [worn EXCEPT !.failureDetected = "Battery Failure",
                         !.properties = @ \cup {"ErrorCondition"}],
            [worn EXCEPT !.properties = @ \ {"DesignCapacity"}],
            [worn EXCEPT !.properties = @ \ {"MaxCapacity"}],
            [settled EXCEPT !.isPresent = FALSE, !.maxCap = 620],
            [ChargingReading EXCEPT !.invalidWakeSecs = 0]
        }

\* readings that ask for blackouts of two seconds, on battery, and of one
\* second, on AC
WindowReadings ==
    {   BaseReading,
        [ChargingReading EXCEPT !.invalidWakeSecs = 1]
    }

SnapshotReadings ==
    LET settled  == [BaseReading EXCEPT !.invalidWakeSecs = 0]
        charging == [ChargingReading EXCEPT !.invalidWakeSecs = 0]
    IN  {   settled,
            [settled EXCEPT !.maxCap = 600],
            charging,
            [settled EXCEPT !.externalConnected = TRUE],
            [settled EXCEPT !.avgAmperage = 0],
            [charging EXCEPT !.isPresent = FALSE, !.maxCap = 600,
                             !.failureDetected = kBatteryPermFailureString,
                             !.properties = @ \cup {"ErrorCondition"}],
            [settled EXCEPT !.isPresent = FALSE]
        }

(***************************************************************************)
(* AppleSmartBatteryManagerUserClient                                      *)
(***************************************************************************)
\* the tasks that can open the user client; clientHasPrivilege(task,
\* kIOClientPrivilegeAdministrator) succeeds for the first
Tasks == {1, 2}
AdminTasks == {1}
\* the provider the user client is started on
Provider == 1
\* the levels a caller passes
Levels == -1 .. 2
\* what disableInflow and inhibitCharging return
ManagerResults == {kIOReturnSuccess, kIOReturnError}

\* no method has been called
NoCall == [method |-> NoValue, level |-> 0, admin_priv |-> FALSE,
           owner |-> NULL, invoked |-> <<>>]

\* the user client as allocated, the battery manager with both levels at 0
InitUserClient ==
    /\ fOwningTask = NULL
    /\ fOwner = NULL
    /\ return_code = NoValue
    /\ inflowDisabled = 0
    /\ chargeInhibited = 0
    /\ lastCall = NoCall

\* clientHasPrivilege(fOwningTask, kIOClientPrivilegeAdministrator)
clientHasPrivilege(task) ==
    IF task \in AdminTasks THEN kIOReturnSuccess ELSE kIOReturnNotPrivileged

\* (mutant) a level outside {0, 1} is clamped and passed on
secureCall_clamped(level, ret, owner, result) ==
    LET admin_priv == kIOReturnSuccess = ret
        clamped    == IF level < 0 THEN 0 ELSE IF level > 1 THEN 1 ELSE level
    IN  IF admin_priv /\ owner # NULL
        THEN [return_code |-> result, invoked |-> <<clamped, result>>]
        ELSE [return_code |-> kIOReturnNotPrivileged, invoked |-> <<>>]

\* (mutant) the owner is called whoever the caller is
secureCall_unprivileged(level, ret, owner, result) ==
    IF ~(level = 0 \/ level = 1)
    THEN [return_code |-> kIOReturnBadArgument, invoked |-> <<>>]
    ELSE IF owner # NULL
         THEN [return_code |-> result, invoked |-> <<level, result>>]
         ELSE [return_code |-> kIOReturnNotPrivileged, invoked |-> <<>>]

\* The body shared by secureInflowDisable (lines 69-87) and
\* secureChargeInhibit (lines 95-113): ret is what clientHasPrivilege
\* returns, result what the owner's method returns if it is called. The
\* outcome is *return_code and the call made on the owner, <<level, result>>,
\* or <<>> when the owner is not called.
secureCall(level, ret, owner, result) ==
    LET admin_priv == kIOReturnSuccess = ret
    IN  IF ~(level = 0 \/ level = 1)
        THEN [return_code |-> kIOReturnBadArgument, invoked |-> <<>>]
        ELSE IF admin_priv /\ owner # NULL
             THEN [return_code |-> result, invoked |-> <<level, result>>]
             ELSE [return_code |-> kIOReturnNotPrivileged, invoked |-> <<>>]

\* the level the battery manager holds after the call c on it: a call that
\* succeeds sets the level
managerLevel(old, c) ==
    IF c # <<>> /\ c[2] = kIOReturnSuccess THEN c[1] ELSE old

\* what a method call records of itself
callRecord(method, level, c) ==
    [ method     |-> method,
      level      |-> level,
      admin_priv |-> kIOReturnSuccess = clientHasPrivilege(fOwningTask),
      owner      |-> fOwner,
      invoked    |-> c.invoked ]

\* initWithTask(owningTask, ...)
initWithTask ==
    /\ fOwningTask = NULL
    /\ fOwner = NULL
    /\ \E owningTask \in Tasks : fOwningTask' = owningTask
    /\ UNCHANGED <<fOwner, return_code, inflowDisabled, chargeInhibited,
                   lastCall, pluginVars>>

\* start(provider)
start ==
    /\ fOwningTask # NULL
    /\ fOwner = NULL
    /\ fOwner' = Provider
    /\ UNCHANGED <<fOwningTask, return_code, inflowDisabled, chargeInhibited,
                   lastCall, pluginVars>>

\* secureInflowDisable(level, return_code) called by the owning task
secureInflowDisable ==
    /\ fOwningTask # NULL
    /\ \E level \in Levels, result \in ManagerResults :
          LET c == secureCall(level, clientHasPrivilege(fOwningTask),
                              fOwner, result)
          IN  /\ return_code' = c.return_code
              /\ inflowDisabled' = managerLevel(inflowDisabled, c.invoked)
              /\ lastCall' = callRecord("secureInflowDisable", level, c)
    /\ UNCHANGED <<fOwningTask, fOwner, chargeInhibited, pluginVars>>

\* secureChargeInhibit(level, return_code) called by the owning task
secureChargeInhibit ==
    /\ fOwningTask # NULL
    /\ \E level \in Levels, result \in ManagerResults :
          LET c == secureCall(level, clientHasPrivilege(fOwningTask),
                              fOwner, result)
          IN  /\ return_code' = c.return_code
              /\ chargeInhibited' = managerLevel(chargeInhibited, c.invoked)
              /\ lastCall' = callRecord("secureChargeInhibit", level, c)
    /\ UNCHANGED <<fOwningTask, fOwner, inflowDisabled, pluginVars>>

\* clientClose(): the task is released; no method is called afterwards
clientClose ==
    /\ fOwningTask # NULL
    /\ fOwningTask' = NULL
    /\ UNCHANGED <<fOwner, return_code, inflowDisabled, chargeInhibited,
                   lastCall, pluginVars>>

(***************************************************************************)
(* The events                                                              *)
(***************************************************************************)
TypeOK ==
    /\ now \in 0 .. MaxTime
    /\ DOMAIN batts = Batteries
    /\ ignoringTimeRemainingEstimates \in BOOLEAN
    /\ useBatteryTimeEstimate \in BOOLEAN
    /\ published \subseteq Batteries

\* the statics as the loader leaves them, the batteries as the kernel reports
\* them
InitStatics ==
    /\ now = 0
    /\ estimatesInvalidUntil = 0
    /\ useBatteryTimeEstimate = FALSE
    /\ ignoringTimeRemainingEstimates = FALSE
    /\ timeSettledTimer = NULL
    /\ runLoopTimers = {}
    /\ lastExternal = FALSE
    /\ lastIsPresent = FALSE
    /\ old_battery = [i \in DOMAIN batts |-> NoRecord]
    /\ store = [i \in DOMAIN batts |-> NoRecord]
    /\ published = {}
    /\ balgReads = {}
    /\ lastEvent = "load"
    /\ InitUserClient

InitWith(Readings) == batts \in [Batteries -> Readings] /\ InitStatics

\* _batteryCount()
_batteryCount == Cardinality(DOMAIN batts)

\* the plugin is loaded and has not been ended by a fault
running == lastEvent \notin {"load", "fault"}

\* Lines 210-221 when there is no battery: calloc(1, 0) returns NULL, and the
\* function returns at line 215, or it returns a pointer, and line 220 reads
\* batteries[0] where there is no battery and line 221 reads through it.
runWithoutBatteries ==
    /\ \E result \in {NULL, 1} :
          lastEvent' = IF NULL = result THEN "telemetry" ELSE "fault"
    /\ UNCHANGED <<batts, trackerVars, runVars>>

\* BatteryTimeRemaining_prime: the first pipeline run, when the plugin loads
BatteryTimeRemaining_prime ==
    /\ lastEvent = "load"
    /\ IF _batteryCount = 0
       THEN UNCHANGED <<batts, trackerVars, runVars>>
       ELSE \E keyFound \in BOOLEAN :
               runPipeline(pipeline(tracker, batts, keyFound))
    /\ lastEvent' = "prime"
    /\ UNCHANGED <<now, userClientVars>>

\* The kernel reports the reading r for battery i; the battery struct is
\* updated and BatteryTimeRemainingBatteriesHaveChanged runs.
BatteryTimeRemainingBatteriesHaveChanged(Readings) ==
    /\ running
    /\ IF _batteryCount = 0
       THEN runWithoutBatteries
       ELSE /\ \E i \in DOMAIN batts, r \in Readings, keyFound \in BOOLEAN :
                  runPipeline(pipeline(tracker,
                                       [batts EXCEPT ![i] = batteryChanged(@, r)],
                                       keyFound))
            /\ lastEvent' = "telemetry"
    /\ UNCHANGED <<now, userClientVars>>

\* BatteryTimeRemainingSleepWakeNotification(messageType); sleep(1) lets a
\* second pass before the wake-up time is read
BatteryTimeRemainingSleepWakeNotification ==
    /\ running
    /\ \E messageType \in {kIOMessageSystemWillPowerOn, kIOMessageSystemWillSleep} :
          IF kIOMessageSystemWillPowerOn = messageType /\ _batteryCount > 0
          THEN /\ now < MaxTime
               /\ now' = now + 1
               /\ LET trk == _discontinuityOccurred(tracker, batts, now + 1)
                  IN  /\ estimatesInvalidUntil' = trk.estimatesInvalidUntil
                      /\ ignoringTimeRemainingEstimates' =
                                          trk.ignoringTimeRemainingEstimates
                      /\ timeSettledTimer' = trk.timeSettledTimer
                      /\ runLoopTimers' = trk.runLoopTimers
               /\ lastEvent' = "wake"
          ELSE /\ UNCHANGED <<now, trackerVars>>
               /\ lastEvent' = "sleep"
    /\ UNCHANGED <<batts, runVars, userClientVars>>

\* The run loop fires a valid timer whose fire date has come (a one-shot timer
\* is invalidated as it fires) and calls _timeRemainingMaybeValid.
_timeRemainingMaybeValid ==
    /\ running
    /\ \E tm \in runLoopTimers, keyFound \in BOOLEAN :
          /\ tm.fireDate <= now
          /\ \E p \in {pipeline(
                timerHasFired([tracker EXCEPT !.runLoopTimers = @ \ {tm}]),
                batts, keyFound)} : runPipeline(p)
    /\ lastEvent' = "timer"
    /\ UNCHANGED <<now, userClientVars>>

\* a second passes
Tick ==
    /\ now < MaxTime
    /\ now' = now + 1
    /\ UNCHANGED <<batts, trackerVars, runVars, lastEvent, userClientVars>>

Init == InitWith(SysReadings)

Next ==
    \/ BatteryTimeRemaining_prime
    \/ BatteryTimeRemainingBatteriesHaveChanged(SysReadings)
    \/ BatteryTimeRemainingSleepWakeNotification
    \/ _timeRemainingMaybeValid
    \/ Tick

Spec == Init /\ [][Next]_vars

\* the same events over the readings that exercise the publisher
InitPublish == InitWith(PublishReadings)

NextPublish ==
    \/ BatteryTimeRemaining_prime
    \/ BatteryTimeRemainingBatteriesHaveChanged(PublishReadings)
    \/ BatteryTimeRemainingSleepWakeNotification
    \/ _timeRemainingMaybeValid
    \/ Tick

SpecPublish == InitPublish /\ [][NextPublish]_vars

\* the pipeline runs over the readings that exercise the health classifier; the
\* clock stands still
InitHealth == InitWith(HealthReadings)

NextHealth ==
    \/ BatteryTimeRemaining_prime
    \/ BatteryTimeRemainingBatteriesHaveChanged(HealthReadings)
    \/ _timeRemainingMaybeValid

SpecHealth == InitHealth /\ [][NextHealth]_vars

\* the same events on a machine that has batCount batteries or none
InitNoBattery ==
    /\ batts \in [Batteries -> SysReadings] \cup {<<>>}
    /\ InitStatics

NextNoBattery ==
    \/ BatteryTimeRemaining_prime
    \/ BatteryTimeRemainingBatteriesHaveChanged(SysReadings)
    \/ BatteryTimeRemainingSleepWakeNotification
    \/ _timeRemainingMaybeValid
    \/ Tick

SpecNoBattery == InitNoBattery /\ [][NextNoBattery]_vars

\* the pipeline runs over the readings that exercise the snapshot; the clock
\* stands still
InitSnapshot == InitWith(SnapshotReadings)

NextSnapshot ==
    \/ BatteryTimeRemaining_prime
    \/ BatteryTimeRemainingBatteriesHaveChanged(SnapshotReadings)
    \/ _timeRemainingMaybeValid

SpecSnapshot == InitSnapshot /\ [][NextSnapshot]_vars

\* the pipeline runs over the readings of batteries in every condition; the
\* clock stands still
InitCondition == InitWith(ConditionReadings)

NextCondition ==
    \/ BatteryTimeRemaining_prime
    \/ BatteryTimeRemainingBatteriesHaveChanged(ConditionReadings)
    \/ _timeRemainingMaybeValid

SpecCondition == InitCondition /\ [][NextCondition]_vars

\* The clock moves on for as long as notifications are modelled and, after
\* that, until the pending timer is due.
TimePasses ==
    /\ now < MaxTime \/ \E tm \in runLoopTimers : now < tm.fireDate
    /\ now' = now + 1
    /\ UNCHANGED <<batts, trackerVars, runVars, lastEvent, userClientVars>>

\* The events with a clock that reaches every deadline: readings arrive and
\* the machine wakes up to MaxTime, time does not stop and the run loop calls
\* back a timer that stays due.
InitWindow == InitWith(WindowReadings)

NextWindow ==
    \/ BatteryTimeRemaining_prime
    \/ now <= MaxTime /\ BatteryTimeRemainingBatteriesHaveChanged(WindowReadings)
    \/ BatteryTimeRemainingSleepWakeNotification
    \/ _timeRemainingMaybeValid
    \/ TimePasses

SpecWindow ==
    /\ InitWindow
    /\ [][NextWindow]_vars
    /\ WF_vars(TimePasses)
    /\ WF_vars(_timeRemainingMaybeValid)

\* the user client beside a plugin that has one reading and is not running
InitUserClientOnly == InitWith({BaseReading})

NextUserClient ==
    \/ initWithTask
    \/ start
    \/ secureInflowDisable
    \/ secureChargeInhibit
    \/ clientClose

SpecUserClient == InitUserClientOnly /\ [][NextUserClient]_vars

\* Every battery holds the same reading, any one of the estimator's or of the
\* capacity percentages; the kernel reports it again and again while wakes,
\* the clock and the timer go on.
InitReadings ==
    /\ batts \in { [i \in Batteries |-> r] :
                      r \in EstimatorReadings \cup CapacityReadings
                              \cup FirmwareReadings \cup RoundingReadings }
    /\ InitStatics

NextReadings ==
    \/ BatteryTimeRemaining_prime
    \/ BatteryTimeRemainingBatteriesHaveChanged({readingOf(batts[0])})
    \/ BatteryTimeRemainingSleepWakeNotification
    \/ _timeRemainingMaybeValid
    \/ Tick

SpecReadings == InitReadings /\ [][NextReadings]_vars

(***************************************************************************)
(* Properties of the discontinuity tracker and of the estimator under it   *)
(***************************************************************************)
\* the handlers that end in a pipeline run
RunEvents == {"prime", "telemetry", "timer"}

\* the reading of battery b passes the checks on its current (lines 355-357)
plausibleCurrent(b) == ~noTimeEstimate(b, FALSE)

\* C1: after every pipeline run made while ignoringTimeRemainingEstimates is
\* true, the estimate of every battery is -1, whatever its readings are and
\* whether or not the firmware estimate is trusted.
C1_SuppressedRunYieldsNoEstimate ==
    (lastEvent \in RunEvents /\ ignoringTimeRemainingEstimates)
        => \A i \in Batteries : batts[i].swCalculatedTR = -1

\* a run in a blackout has just handled a battery whose current is plausible,
\* with the firmware estimate trusted
C1_Witness ==
    /\ lastEvent = "telemetry"
    /\ ignoringTimeRemainingEstimates
    /\ useBatteryTimeEstimate
    /\ \E i \in Batteries :
          /\ batts[i].isPresent
          /\ plausibleCurrent(batts[i])
          /\ batts[i].hwAverageTR > 0
          /\ batts[i].swCalculatedTR = -1

TimerStep == lastEvent' = "timer" /\ now' = now

\* every pipeline run made before estimatesInvalidUntil yields -1 for every
\* battery
RunBeforeDeadlineYieldsNoEstimate ==
    (lastEvent \in RunEvents /\ now < estimatesInvalidUntil)
        => \A i \in Batteries : batts[i].swCalculatedTR = -1

\* C6 as stated: a run before the deadline yields -1 for every battery, and
\* the run made by the timer callback leaves the handle and the flag cleared
\* and an estimate other than -1 for every battery whose current is plausible.
C6_TimerRunYieldsEstimate ==
    /\ RunBeforeDeadlineYieldsNoEstimate
    /\ lastEvent = "timer" =>
          /\ timeSettledTimer = NULL
          /\ ~ignoringTimeRemainingEstimates
          /\ \A i \in Batteries :
                plausibleCurrent(batts[i]) => batts[i].swCalculatedTR # -1

\* C6 amended: a run before the deadline yields -1 for every battery; the
\* timer callback clears the handle and the flag and runs the pipeline in the
\* same step on the readings it finds, and that run yields for every battery
\* whose current is plausible the computed estimate (the firmware's or the
\* manual one, negative values as -1, values above 600 as 600), which is -1
\* exactly when the computed value is negative.
C6_TimerRunYieldsComputedEstimate ==
    /\ []RunBeforeDeadlineYieldsNoEstimate
    /\ [][TimerStep =>
            /\ timeSettledTimer' = NULL
            /\ ~ignoringTimeRemainingEstimates'
            /\ \A i \in Batteries :
                  /\ readingOf(batts'[i]) = readingOf(batts[i])
                  /\ plausibleCurrent(batts[i]) =>
                        LET raw == calculatedTR(batts[i], useBatteryTimeEstimate')
                        IN  /\ raw < 0 => batts'[i].swCalculatedTR = -1
                            /\ raw \in 0 .. kMaxBattMinutes =>
                                  batts'[i].swCalculatedTR = raw
                            /\ raw > kMaxBattMinutes =>
                                  batts'[i].swCalculatedTR = kMaxBattMinutes
         ]_vars

\* the timer has fired at the deadline of a blackout in which a run yielded
\* -1, and its run has computed an estimate for a battery
C6_Witness ==
    /\ lastEvent = "timer"
    /\ now = estimatesInvalidUntil
    /\ now > 0
    /\ old_battery[0].waitingForEstimates = FALSE
    /\ store[0].timeToEmpty > 0
    /\ \E i \in Batteries :
          plausibleCurrent(batts[i]) /\ batts[i].swCalculatedTR > 0

\* C7: at most one timer is valid at any time, it is the one the handle names
\* and it is set for the deadline of the latest discontinuity, whose blackout
\* is still on; the flag is clear only once that deadline has come.
C7_OneLiveTimer ==
    /\ Cardinality(runLoopTimers) <= 1
    /\ \A tm \in runLoopTimers :
          /\ tm.id = timeSettledTimer
          /\ tm.fireDate = estimatesInvalidUntil
          /\ ignoringTimeRemainingEstimates
    /\ timeSettledTimer # NULL => \E tm \in runLoopTimers : tm.id = timeSettledTimer
    /\ ~ignoringTimeRemainingEstimates => estimatesInvalidUntil <= now

\* a wake notification has replaced the timer of a blackout that the last
\* pipeline run was made in, by one with a different deadline
C7_Witness ==
    /\ lastEvent = "wake"
    /\ old_battery[0].waitingForEstimates = TRUE
    /\ lastExternal
    /\ Cardinality(runLoopTimers) = 1
    /\ estimatesInvalidUntil = now + 1

(***************************************************************************)
(* Properties of the publisher                                             *)
(***************************************************************************)
\* a step that ends in a pipeline run
RunStep == lastEvent' \in RunEvents /\ now' = now

\* C3: a pipeline run calls SCDynamicStoreSetValue for battery i if and only if
\* no record is retained for i or the record it built differs from the retained
\* one; the value written is the built record and differs from the value
\* written before; nothing else writes to the store.
C3_PublishIffChanged ==
    [][ /\ RunStep =>
            \A i \in Batteries :
                /\ i \in published' <=>
                      (old_battery[i] = NoRecord \/ old_battery'[i] # old_battery[i])
                /\ i \in published' =>
                      (store'[i] = old_battery'[i] /\ store'[i] # store[i])
                /\ i \notin published' => store'[i] = store[i]
        /\ ~RunStep => store' = store
      ]_vars

\* a run has published the changed record of battery 1 and skipped the equal
\* record of battery 0, which had been published before
C3_Witness ==
    /\ lastEvent = "telemetry"
    /\ published = {1}
    /\ store[0] # NoRecord
    /\ store[0] = old_battery[0]

\* C4: a pipeline run that follows a pipeline run, with no wake or sleep
\* notification in between and with the same readings in every battery,
\* publishes nothing.
C4_SecondRunPublishesNothing ==
    [][ ( /\ lastEvent \in RunEvents
          /\ lastEvent' = "telemetry"
          /\ now' = now
          /\ \A i \in Batteries : readingOf(batts'[i]) = readingOf(batts[i]) )
        => published' = {}
      ]_vars

\* a run has found every record equal to the retained one, in a blackout that
\* an AC change opened and with the primary battery marked as needing
\* replacement
C4_Witness ==
    /\ lastEvent = "telemetry"
    /\ published = {}
    /\ ignoringTimeRemainingEstimates
    /\ lastExternal
    /\ batts[1].markedNeedsReplacement
    /\ old_battery[1].health = "Fair"

(***************************************************************************)
(* Properties of the health classifier                                     *)
(***************************************************************************)
\* (maxCap + 200) / designCap <= pct / 100, for a positive design capacity
RatioLE(b, pct) == 100 * (b.maxCap + 200) <= pct * b.designCap

\* battery b is present, reports both capacities and no permanent failure
HealthIsComputed(b) ==
    /\ b.isPresent
    /\ b.designCap > 0
    /\ {"MaxCapacity", "DesignCapacity"} \subseteq b.properties
    /\ b.failureDetected # kBatteryPermFailureString

C8_ZeroCurrentYieldsNoEstimate ==
    /\ \A i \in Batteries : batts[i].swCalculatedTR # Undefined
    /\ lastEvent \in RunEvents =>
          \A i \in Batteries :
              batts[i].avgAmperage = 0 => batts[i].swCalculatedTR = -1

\* outside a blackout, with the firmware estimate trusted, a run has handled a
\* battery that reports an average and an instant current of 0: the bounds are
\* [0, 0] and only the test for zero rejects the reading
C8_Witness ==
    /\ lastEvent \in RunEvents
    /\ ~ignoringTimeRemainingEstimates
    /\ useBatteryTimeEstimate
    /\ \E i \in Batteries :
          /\ batts[i].avgAmperage = 0
          /\ batts[i].instantAmperage = 0
          /\ "InstantAmperage" \in batts[i].properties
          /\ batts[i].hwAverageTR > 0
          /\ batts[i].swCalculatedTR = -1

\* |avgAmperage| is below half or above twice |instantAmperage| when the
\* battery reports an instant current, below 5 or above 15000 when not
OutsideBounds(b) ==
    IF "InstantAmperage" \in b.properties
    THEN \/ 2 * abs(b.avgAmperage) < abs(b.instantAmperage)
         \/ abs(b.avgAmperage) > 2 * abs(b.instantAmperage)
    ELSE abs(b.avgAmperage) < 5 \/ abs(b.avgAmperage) > 15000

\* C9: after every pipeline run the estimate of a battery whose average
\* current is outside the bounds is -1; a nonzero average current inside or on
\* the bounds is not rejected: outside a blackout the estimate is then the
\* trusted firmware estimate, or, for a discharging battery with a negative
\* current, a manual estimate that is not -1.
C9_OutsideBoundsYieldsNoEstimate ==
    lastEvent \in RunEvents =>
        \A i \in Batteries :
            LET b == batts[i]
            IN  /\ OutsideBounds(b) => b.swCalculatedTR = -1
                /\ ( /\ ~OutsideBounds(b)
                     /\ b.avgAmperage # 0
                     /\ ~ignoringTimeRemainingEstimates ) =>
                       /\ (useBatteryTimeEstimate
                              /\ b.hwAverageTR \in 0 .. kMaxBattMinutes)
                            => b.swCalculatedTR = b.hwAverageTR
                       /\ (~useBatteryTimeEstimate /\ ~b.isCharging
                              /\ b.avgAmperage < 0 /\ b.currentCap >= 0)
                            => b.swCalculatedTR \in 0 .. kMaxBattMinutes

\* outside a blackout a run has rejected an average current of 10 mA, just
\* below the lower bound of 10.5 mA that an instant current of -21 mA gives
C9_Witness ==
    /\ lastEvent \in RunEvents
    /\ ~ignoringTimeRemainingEstimates
    /\ \E i \in Batteries :
          /\ "InstantAmperage" \in batts[i].properties
          /\ batts[i].instantAmperage = -21
          /\ abs(batts[i].avgAmperage) = 10
          /\ batts[i].swCalculatedTR = -1

\* q is the real n/d (n >= 0, d > 0) rounded to the nearest integer, halves up
IsRounded(q, n, d) == 2 * d * q - d <= 2 * n /\ 2 * n < 2 * d * q + d

C11_AbsentBatterySnapshot ==
    /\ [](lastEvent \in RunEvents =>
            \A i \in Batteries :
                ~batts[i].isPresent =>
                    /\ old_battery[i].isCharging = FALSE
                    /\ old_battery[i].timeToFullCharge = 0
                    /\ old_battery[i].timeToEmpty = 0
                    /\ old_battery[i].health = NoValue
                    /\ old_battery[i].confidence = NoValue)
    /\ [][RunStep =>
            \A i \in Batteries :
                ~batts'[i].isPresent =>
                    batts'[i].markedNeedsReplacement
                        = batts[i].markedNeedsReplacement]_vars

\* a run has built and published the dictionary of a battery that is not
\* present, reports that it is charging with a permanent failure, carries the
\* mark and has a computed estimate
C11_Witness ==
    /\ lastEvent \in RunEvents
    /\ \E i \in Batteries :
          /\ ~batts[i].isPresent
          /\ batts[i].isCharging
          /\ batts[i].failureDetected = kBatteryPermFailureString
          /\ batts[i].markedNeedsReplacement
          /\ batts[i].swCalculatedTR > 0
          /\ old_battery[i].isCharging = FALSE
          /\ old_battery[i].timeToFullCharge = 0
          /\ old_battery[i].health = NoValue
          /\ store[i] = old_battery[i]

\* C20: in the dictionary a pipeline run builds for a battery that is
\* present, an estimate of -1 gives Is Charging = the charging flag and both
\* times -1; another estimate e gives, when charging, Is Charging true, Time to
\* Full Charge e and Time to Empty 0; when not charging on AC, Is Charging
\* false and both times 0; when not charging on battery power, Is Charging
\* false, Time to Empty e and Time to Full Charge 0. In no dictionary are both
\* times positive.
C20_TimeFieldsTable ==
    lastEvent \in RunEvents =>
        \A i \in Batteries :
            LET b      == batts[i]
                e      == b.swCalculatedTR
                fields == << old_battery[i].isCharging,
                             old_battery[i].timeToFullCharge,
                             old_battery[i].timeToEmpty >>
            IN  /\ b.isPresent =>
                      /\ e = -1 => fields = <<b.isCharging, -1, -1>>
                      /\ (e # -1 /\ b.isCharging) => fields = <<TRUE, e, 0>>
                      /\ (e # -1 /\ ~b.isCharging /\ b.externalConnected) =>
                            fields = <<FALSE, 0, 0>>
                      /\ (e # -1 /\ ~b.isCharging /\ ~b.externalConnected) =>
                            fields = <<FALSE, 0, e>>
                /\ ~(fields[2] > 0 /\ fields[3] > 0)

\* a run has built and published the dictionary of a battery that is present
\* on AC, not charging, with an estimate of 30 minutes: both times are 0
C20_Witness ==
    /\ lastEvent \in RunEvents
    /\ \E i \in Batteries :
          /\ batts[i].isPresent
          /\ batts[i].externalConnected
          /\ ~batts[i].isCharging
          /\ batts[i].swCalculatedTR = 30
          /\ old_battery[i].isCharging = FALSE
          /\ old_battery[i].timeToFullCharge = 0
          /\ old_battery[i].timeToEmpty = 0
          /\ store[i] = old_battery[i]

(***************************************************************************)
(* Properties of the user client                                           *)
(***************************************************************************)
\* C12: when the latest call of either method had a level other than 0 and 1,
\* *return_code is kIOReturnBadArgument and the owner's disableInflow or
\* inhibitCharging was not called, whether or not the caller is an
\* administrator; and no step that ends in such a call changes a level of the
\* battery manager.
C12_BadLevelIsRejected ==
    /\ []((lastCall.method # NoValue /\ lastCall.level \notin {0, 1}) =>
            /\ return_code = kIOReturnBadArgument
            /\ lastCall.invoked = <<>>)
    /\ [][(lastCall'.method # NoValue /\ lastCall'.level \notin {0, 1}) =>
            UNCHANGED <<inflowDisabled, chargeInhibited>>]_vars

\* an administrator has called secureChargeInhibit on a started user client
\* with level 2 and has got kIOReturnBadArgument; the manager's levels are
\* those a call with level 1 had set before
C12_Witness ==
    /\ lastCall.method = "secureChargeInhibit"
    /\ lastCall.level = 2
    /\ lastCall.admin_priv
    /\ lastCall.owner # NULL
    /\ lastCall.invoked = <<>>
    /\ return_code = kIOReturnBadArgument
    /\ chargeInhibited = 1

\* C13: the owner's method was called by the latest call only if the caller is
\* an administrator, the level is 0 or 1 and fOwner is set; a call with level 0
\* or 1 from a caller that is no administrator, or with fOwner not set, leaves
\* kIOReturnNotPrivileged in *return_code and does not call the owner; a call
\* with level 0 or 1 from an administrator with fOwner set passes that level
\* to the owner and leaves the owner's result in *return_code.
C13_OwnerCalledOnlyForAdministrator ==
    LET valid      == lastCall.method # NoValue /\ lastCall.level \in {0, 1}
        privileged == lastCall.admin_priv /\ lastCall.owner # NULL
    IN  /\ lastCall.invoked # <<>> => (valid /\ privileged)
        /\ (valid /\ ~privileged) =>
              /\ return_code = kIOReturnNotPrivileged
              /\ lastCall.invoked = <<>>
        /\ (valid /\ privileged) =>
              /\ lastCall.invoked # <<>>
              /\ lastCall.invoked[1] = lastCall.level
              /\ return_code = lastCall.invoked[2]

\* an administrator has called secureInflowDisable with level 1 on a started
\* user client, the owner's disableInflow(1) has failed and its result is the
\* status returned
C13_Witness ==
    /\ lastCall.method = "secureInflowDisable"
    /\ lastCall.level = 1
    /\ lastCall.admin_priv
    /\ lastCall.owner = Provider
    /\ lastCall.invoked = <<1, kIOReturnError>>
    /\ return_code = kIOReturnError

(***************************************************************************)
(* Properties of the tracker on a machine without batteries                *)
(***************************************************************************)
\* C14: while there is no battery, no step of the plugin changes
\* estimatesInvalidUntil, the flag, the timer, the trust decision or the last
\* AC and presence states, none publishes anything, and none reads a battery
\* record (which, there being none, is a read through an invalid pointer).
C14_NoBatteryNoOp ==
    [][_batteryCount = 0 =>
          /\ UNCHANGED <<trackerVars, useBatteryTimeEstimate, lastExternal,
                         lastIsPresent, store, published>>
          /\ lastEvent' # "fault"]_vars

(***************************************************************************)
(* Properties of the suppression window                                    *)
(***************************************************************************)
\* C15: from a discontinuity until the timer fires, that is while
\* ignoringTimeRemainingEstimates is set, the record the store holds for every
\* battery that is present has Time to Empty = Time to Full Charge = -1.
C15_StoreSuppressedInWindow ==
    ignoringTimeRemainingEstimates =>
        \A i \in Batteries :
            (batts[i].isPresent /\ store[i] # NoRecord) =>
                /\ store[i].timeToEmpty = -1
                /\ store[i].timeToFullCharge = -1

\* the same, for the states a pipeline run leaves
StoreSuppressedAfterRun ==
    lastEvent \in RunEvents => C15_StoreSuppressedInWindow

\* C16: a pipeline run that finds the primary battery's externalConnected
\* different from _lastExternal (false at first) calls _discontinuityOccurred
\* before the estimator: the window is open until now + invalidWakeSecs, every
\* battery's estimate is -1 and the store has -1 for both times of every
\* battery that is present. A run that finds it equal leaves
\* estimatesInvalidUntil as it was, does not set the flag and creates no timer.
\* After every run _lastExternal is the primary battery's externalConnected.
C16_ACChangeIsDiscontinuity ==
    [][RunStep =>
          LET external == batts'[0].externalConnected
          IN  /\ lastExternal # external =>
                    /\ ignoringTimeRemainingEstimates'
                    /\ estimatesInvalidUntil' = now + batts'[0].invalidWakeSecs
                    /\ \E tm \in runLoopTimers' :
                          /\ tm.id = timeSettledTimer'
                          /\ tm.fireDate = estimatesInvalidUntil'
                    /\ \A i \in Batteries :
                          /\ batts'[i].swCalculatedTR = -1
                          /\ batts'[i].isPresent =>
                                /\ store'[i].timeToEmpty = -1
                                /\ store'[i].timeToFullCharge = -1
              /\ lastExternal = external =>
                    /\ estimatesInvalidUntil' = estimatesInvalidUntil
                    /\ ignoringTimeRemainingEstimates' =>
                          ignoringTimeRemainingEstimates
                    /\ runLoopTimers' \subseteq runLoopTimers
              /\ lastExternal' = external
      ]_vars

\* Before any wake (the clock is at 0) a telemetry run has found AC removed
\* again: the window is open and the primary battery, present with a plausible
\* current, has no estimate and -1 for both times in the store.
C16_Witness ==
    /\ lastEvent = "telemetry"
    /\ now = 0
    /\ ~lastExternal
    /\ ignoringTimeRemainingEstimates
    /\ estimatesInvalidUntil = batts[0].invalidWakeSecs
    /\ timeSettledTimer # NULL
    /\ batts[0].isPresent
    /\ plausibleCurrent(batts[0])
    /\ batts[0].swCalculatedTR = -1
    /\ store[0].timeToEmpty = -1
    /\ store[0].timeToFullCharge = -1

\* the wake handler has run on kIOMessageSystemWillPowerOn: it is the last
\* handler and a second has gone by, by more than a tick of the clock
WakeStep == lastEvent' = "wake" /\ now' = now + 1 /\ ~Tick

\* the wake handler has run on another message
OtherMessageStep == lastEvent' = "sleep" /\ now' = now

\* C17: the wake handler called with kIOMessageSystemWillPowerOn, there being
\* a battery, leaves estimatesInvalidUntil = the time it reads +
\* invalidWakeSecs of the primary battery, the flag set and that deadline's
\* timer as the only pending one, whether or not a window was open; called
\* with another message it changes nothing.
C17_WakeIsDiscontinuity ==
    [][ /\ WakeStep =>
              /\ estimatesInvalidUntil' = now' + batts[0].invalidWakeSecs
              /\ ignoringTimeRemainingEstimates'
              /\ timeSettledTimer' # NULL
              /\ runLoopTimers' = {[id       |-> timeSettledTimer',
                                    fireDate |-> estimatesInvalidUntil']}
              /\ UNCHANGED <<batts, runVars>>
        /\ OtherMessageStep => UNCHANGED <<batts, trackerVars, runVars>>
      ]_vars

\* A wake at time 1 on AC: the run that found AC connected, at time 0, had
\* opened a window that could not end before time 1, and the wake has replaced
\* its deadline and its timer.
C17_Witness ==
    /\ lastEvent = "wake"
    /\ now = 1
    /\ lastExternal
    /\ batts[0].invalidWakeSecs = 2
    /\ ignoringTimeRemainingEstimates
    /\ estimatesInvalidUntil = 3
    /\ runLoopTimers = {[id |-> timeSettledTimer, fireDate |-> 3]}

(***************************************************************************)
(* Properties of the trust decision                                        *)
(***************************************************************************)
\* C18: a pipeline run that finds the primary battery present, _lastIsPresent
\* being false (as it is at the first run), reads the 'BALG' key and sets
\* _useBatteryTimeEstimate to (key found and the battery has a Time Remaining
\* property); every other run reads no key and leaves it as it was, whatever
\* the battery now reports; after every run _lastIsPresent is the primary
\* battery's isPresent; and no step that is not a pipeline run changes either.
C18_TrustDecidedOnInsertion ==
    [][ /\ RunStep =>
              LET present == batts'[0].isPresent
                  native  == "TimeRemaining" \in batts'[0].properties
              IN  /\ (present /\ ~lastIsPresent) =>
                        /\ balgReads' # {}
                        /\ \A keyFound \in balgReads' :
                              useBatteryTimeEstimate' = (keyFound /\ native)
                  /\ ~(present /\ ~lastIsPresent) =>
                        /\ balgReads' = {}
                        /\ useBatteryTimeEstimate' = useBatteryTimeEstimate
                  /\ lastIsPresent' = present
        /\ ~RunStep => UNCHANGED <<useBatteryTimeEstimate, lastIsPresent>>
      ]_vars

\* a run has left the firmware estimate trusted though the primary battery,
\* present in this run and in the one before, no longer reports one
C18_Witness ==
    /\ lastEvent = "telemetry"
    /\ useBatteryTimeEstimate
    /\ balgReads = {}
    /\ lastIsPresent
    /\ batts[0].isPresent
    /\ "TimeRemaining" \notin batts[0].properties

(***************************************************************************)
(* Properties of the estimate of a reading that is not rejected            *)
(***************************************************************************)
\* e is the estimate for the quotient n / d of two integers, d > 0, converted
\* to an integer towards zero: -1 when the quotient is -1 or less, the cap
\* when it is the cap or more, its integer part otherwise
EstimateOf(e, n, d) ==
    \/ n <= -d /\ e = -1
    \/ -d < n /\ n < 0 /\ e = 0
    \/ 0 <= n /\ n < kMaxBattMinutes * d /\ e * d <= n /\ n < (e + 1) * d
    \/ kMaxBattMinutes * d <= n /\ e = kMaxBattMinutes

\* C19: after every pipeline run the estimate of each battery is -1 or in
\* 0..600, and for a battery whose reading is not rejected (nonzero average
\* current within the bounds, flag clear) it is the firmware estimate when that
\* is trusted, and else 60 * (maxCap - currentCap) / avgAmperage when charging
\* and -60 * currentCap / avgAmperage when not, converted to whole minutes;
\* with a negative value replaced by -1 and a value above 600 by 600. (The
\* code loses a minute of 60 * 2050 / 1000 = 123 in its double arithmetic.)
C19_EstimateIsClampedRaw ==
    lastEvent \in RunEvents =>
        \A i \in Batteries :
            LET b    == batts[i]
                e    == b.swCalculatedTR
                a    == b.avgAmperage
                mAh  == IF b.isCharging THEN b.maxCap - b.currentCap
                                        ELSE -b.currentCap
                sign == IF a < 0 THEN -1 ELSE 1
            IN  /\ e \in {-1} \cup 0 .. kMaxBattMinutes
                /\ ( /\ a # 0
                     /\ ~OutsideBounds(b)
                     /\ ~ignoringTimeRemainingEstimates ) =>
                       IF useBatteryTimeEstimate
                       THEN EstimateOf(e, b.hwAverageTR, 1)
                       ELSE EstimateOf(e, 60 * mAh * sign, a * sign)

(***************************************************************************)
(* Properties of the battery conditions                                    *)
(***************************************************************************)
\* lines 419-422: battery b is present and reports the permanent failure
PermFailure(b) ==
    /\ b.isPresent
    /\ "ErrorCondition" \in b.properties
    /\ b.failureDetected = kBatteryPermFailureString

\* C21: after every pipeline run a present battery with the permanent failure
\* has health Poor, confidence Good and the failure string in its dictionary,
\* no other battery has health Poor, and every battery has a dictionary, which
\* is the value in the store; the run leaves the mark of a battery with the
\* permanent failure as it was and writes the dictionaries that changed.
C21_PermFailureIsPoor ==
    /\ [](lastEvent \in RunEvents =>
            \A i \in Batteries :
                /\ PermFailure(batts[i]) =>
                      /\ old_battery[i].health = "Poor"
                      /\ old_battery[i].confidence = "Good"
                      /\ old_battery[i].failure = kBatteryPermFailureString
                /\ old_battery[i] # NoRecord
                /\ old_battery[i].health = "Poor" => PermFailure(batts[i])
                /\ store[i] = old_battery[i])
    /\ [][RunStep =>
            \A i \in Batteries :
                /\ PermFailure(batts'[i]) =>
                      batts'[i].markedNeedsReplacement
                          = batts[i].markedNeedsReplacement
                /\ i \in published' <=> old_battery'[i] # old_battery[i]]_vars

\* a run has published health Poor for a marked battery with the permanent
\* failure whose capacities would release the mark, and health Fair for the
\* other battery
C21_Witness ==
    /\ lastEvent = "telemetry"
    /\ \E i, j \in Batteries :
          /\ PermFailure(batts[i])
          /\ batts[i].markedNeedsReplacement
          /\ ~staysMarked(batts[i])
          /\ old_battery[i].health = "Poor"
          /\ old_battery[i].failure = kBatteryPermFailureString
          /\ i \in published
          /\ old_battery[j].health = "Fair"
          /\ store[j] = old_battery[j]

\* the health and confidence of the dictionary rec are those of a battery
\* whose ratio was computed
RatioHealth(rec) ==
    /\ rec.confidence = "Good"
    /\ rec.health \in {"Fair", "Good"}

\* the dictionary rec has neither health nor confidence
NoHealth(rec) == rec.health = NoValue /\ rec.confidence = NoValue

C23_ReinsertedStartsNormal ==
    [][RunStep =>
          \A i \in Batteries :
              (/\ ~batts[i].isPresent
               /\ HealthIsComputed(batts'[i])
               /\ ~PermFailure(batts'[i])
               /\ ~RatioLE(batts'[i], 80)
               /\ RatioLE(batts'[i], 83)
               /\ batts'[i].cycleCount < 300) =>
                  /\ old_battery'[i].health = "Good"
                  /\ ~batts'[i].markedNeedsReplacement]_vars

(***************************************************************************)
(* Properties of the percentage of a charging battery                      *)
(***************************************************************************)
\* C24: in every record built by a pipeline run for a battery that is charging
\* and has a maximum capacity other than zero, a rounded percentage of 100 or
\* more, as when currentCap exceeds maxCap, is published as 99, and so the
\* current percentage published is below 100.
C24_ChargingBelowHundred ==
    lastEvent \in RunEvents =>
        \A i \in Batteries :
            (batts[i].isCharging /\ batts[i].maxCap # 0) =>
                /\ lround(batts[i].currentCap * 100, batts[i].maxCap) >= 100
                      => old_battery[i].currentCapacity = 99
                /\ old_battery[i].currentCapacity < 100

(***************************************************************************)
(* Properties of the flag and the timer handle                             *)
(***************************************************************************)
\* C25: in every reachable state ignoringTimeRemainingEstimates is set exactly
\* when timeSettledTimer is not NULL, that is when a timer is pending.
C25_FlagIffTimerPending ==
    /\ ignoringTimeRemainingEstimates <=> timeSettledTimer # NULL
    /\ ignoringTimeRemainingEstimates <=> runLoopTimers # {}

\* the timer of a blackout that began after the plugin was primed has fired:
\* flag and handle are clear and no timer is left
C25_Witness ==
    /\ lastEvent = "timer"
    /\ 0 < estimatesInvalidUntil
    /\ estimatesInvalidUntil <= now
    /\ ~ignoringTimeRemainingEstimates
    /\ timeSettledTimer = NULL
    /\ runLoopTimers = {}

(***************************************************************************)
(* Properties of the retained dictionaries                                 *)
(***************************************************************************)
\* C26: after every pipeline run, for every battery the retained dictionary
\* is the one the run built from the battery, the flag and the trust decision,
\* and it is the value the store holds, that is the last one written.
C26_RetainedIsBuiltIsStored ==
    lastEvent \in RunEvents =>
        \A i \in Batteries :
            /\ old_battery[i] = batteryInfo(batts[i],
                                            ignoringTimeRemainingEstimates,
                                            useBatteryTimeEstimate)
            /\ store[i] = old_battery[i]

\* a run has written the changed dictionary of battery 0 and skipped the
\* write for battery 1, whose dictionary is the one written by an earlier run
C26_Witness ==
    /\ lastEvent = "telemetry"
    /\ published = {0}
    /\ old_battery[1] # NoRecord
    /\ store[1] = old_battery[1]
    /\ store[0] = batteryInfo(batts[0], ignoringTimeRemainingEstimates,
                              useBatteryTimeEstimate)

(***************************************************************************)
(* Properties of the end of the suppression window                         *)
(***************************************************************************)
\* C27: whenever ignoringTimeRemainingEstimates is set, and discontinuities
\* come to an end as they do once the clock has passed MaxTime, time passing
\* and due timers being called back lead to a state left by the timer
\* callback, in which the flag is clear and the dictionaries are those a run
\* builds with the flag clear; no step other than the timer callback clears
\* the flag.
C27_WindowCloses ==
    /\ ignoringTimeRemainingEstimates ~>
          (/\ ~ignoringTimeRemainingEstimates
           /\ lastEvent = "timer"
           /\ \A i \in Batteries :
                 old_battery[i] = batteryInfo(batts[i], FALSE,
                                              useBatteryTimeEstimate))
    /\ [][(ignoringTimeRemainingEstimates /\ ~ignoringTimeRemainingEstimates')
            => (lastEvent' = "timer" /\ now' = now /\ now >= estimatesInvalidUntil)
        ]_vars

\* the timer of a blackout that outlasts the notifications has fired and the
\* run it made has published an estimate
C27_Witness ==
    /\ lastEvent = "timer"
    /\ now > MaxTime
    /\ estimatesInvalidUntil = now
    /\ ~ignoringTimeRemainingEstimates
    /\ \E i \in Batteries :
          /\ old_battery[i].waitingForEstimates = FALSE
          /\ old_battery[i].timeToEmpty > 0
          /\ store[i] = old_battery[i]

=============================================================================
